---- MODULE Spec2Model ----
(***************************************************************************)
(* Schema-constrained extraction: parse_email_to_tasks                     *)
(* (2_email_task_parser.py) and analyze_customer_sentiment                 *)
(* (customer_sentiment_analyzer.py).                                       *)
(*                                                                         *)
(* Each invocation builds a two-message request, submits it once to the    *)
(* model-calling collaborator through client.chat.completions.parse, and   *)
(* returns completion.choices[0].message.parsed.  The collaborator's reply *)
(* is validated against the pydantic class given as response_format.       *)
(*                                                                         *)
(* Representation.                                                         *)
(*   - A JSON value surfaced by the collaborator is a tagged record        *)
(*     [t |-> "missing" | "null" | "str" | "num" | "bool" | "list" | "obj"]*)
(*     with its payload in v; "missing" stands for a key that is absent.   *)
(*   - A JSON number is given in tenths: 1.5 is 15, -1.0 is -10.           *)
(*   - A float held by a record is the shortest decimal that reads back    *)
(*     as the same double, as Python prints it.                            *)
(*   - A Python Optional[str] is a sequence: <<>> is None, <<s>> is s.     *)
(*   - A text is a sequence of characters.                                 *)
(***************************************************************************)
EXTENDS Integers, Sequences, FiniteSets, TLC

VARIABLES
    mode,       \* "live": the collaborator answers freely; "stub": a deterministic stub
    pc,         \* per invocation: "idle", "called", "responded", "done", then
                \* "shown" or "crashed" once the entry point has used the result
    kind,       \* per invocation: which extract operation runs ("email" / "sentiment")
    input,      \* per invocation: the argument email_content / feedback
    request,    \* per invocation: the request passed to client.chat.completions.parse
    calls,      \* per invocation: number of collaborator calls made
    response,   \* per invocation: what the collaborator answered
    outcome,    \* per invocation: what the operation returned or raised
    stub,       \* the stub's answers so far: a set of [req, resp]
    assigns,    \* per invocation: attribute assignments the holder made on the record
    shown       \* per invocation: what the entry point printed

vars == <<mode, pc, kind, input, request, calls, response, outcome, stub, assigns, shown>>

(***************************************************************************)
(* Bounds of the model.                                                    *)
(***************************************************************************)
MaxItems == 1        \* longest text list the collaborator surfaces
MaxIndicators == 2   \* longest key_sentiment_indicators list it surfaces
MaxAssigns == 1      \* attribute assignments a holder makes on one record

Invocations == {"i1", "i2"}
Kinds == {"email", "sentiment"}

Blank == " "
Inputs == { <<>>, <<Blank>>, <<"h", "i">> }

(***************************************************************************)
(* JSON values and Python values.                                          *)
(***************************************************************************)
Missing == [t |-> "missing"]
Null == [t |-> "null"]
Str(s) == [t |-> "str", v |-> s]
Num(n) == [t |-> "num", v |-> n]
Bool(b) == [t |-> "bool", v |-> b]
List(l) == [t |-> "list", v |-> l]
Obj(o) == [t |-> "obj", v |-> o]

None == <<>>
Some(x) == <<x>>

SeqsUpTo(S, n) == UNION {[1..m -> S] : m \in 0..n}

(***************************************************************************)
(* Field validation as pydantic applies it to the declared annotations,    *)
(* in its default (lax) mode: a bool field also takes the numbers 1 and 0  *)
(* and the strings "true", "yes", ... in any case; a float field also      *)
(* takes a JSON bool and a string holding a float literal; the declared    *)
(* bounds apply to the coerced number.  str, Literal and List fields       *)
(* coerce nothing.                                                         *)
(***************************************************************************)
IsStr(j) == j.t = "str"

IsListOfStr(j) == j.t = "list" /\ \A i \in 1..Len(j.v) : IsStr(j.v[i])

IsLiteral(j, allowed) == j.t = "str" /\ j.v \in allowed

\* The characters of a string, one string of length one each.
Chars(s) == [i \in 1..Len(s) |-> SubSeq(s, i, i)]

\* Recursion halves its argument wherever the argument can be long.
RECURSIVE Join(_)
Join(cs) ==
    IF Len(cs) = 0 THEN ""
    ELSE IF Len(cs) = 1 THEN cs[1]
    ELSE Join(SubSeq(cs, 1, Len(cs) \div 2)) \o Join(SubSeq(cs, Len(cs) \div 2 + 1, Len(cs)))

\* Index of the first c in cs, 0 when there is none.
Position(cs, c) ==
    IF \E i \in 1..Len(cs) : cs[i] = c
    THEN CHOOSE i \in 1..Len(cs) : cs[i] = c /\ \A k \in 1..(i - 1) : cs[k] # c
    ELSE 0

UpperLetters == Chars("ABCDEFGHIJKLMNOPQRSTUVWXYZ")
LowerLetters == Chars("abcdefghijklmnopqrstuvwxyz")

LowerChar(c) ==
    IF Position(UpperLetters, c) = 0 THEN c ELSE LowerLetters[Position(UpperLetters, c)]

\* ASCII lower-casing of a string.
LowerCase(s) == Join([i \in 1..Len(s) |-> LowerChar(SubSeq(s, i, i))])

TrueStrings == {"1", "on", "t", "true", "y", "yes"}
FalseStrings == {"0", "off", "f", "false", "n", "no"}

\* bool: a JSON bool, the number 1 / 0 (1.0 / 0.0), or one of the strings.
IsBool(j) ==
    \/ j.t = "bool"
    \/ j.t = "num" /\ j.v \in {0, 10}
    \/ j.t = "str" /\ LowerCase(j.v) \in TrueStrings \cup FalseStrings

AsBool(j) ==
    CASE j.t = "bool" -> j.v
      [] j.t = "num" -> (j.v = 10)
      [] OTHER -> (LowerCase(j.v) \in TrueStrings)

(***************************************************************************)
(* A float field reads a string as Rust's f64 parser does, after trimming  *)
(* white space: the literal is rounded to the nearest double, ties to the  *)
(* even mantissa.  The declared bounds compare doubles.                    *)
(*   - A float value is held as the shortest decimal that reads back as    *)
(*     the same double (what Python's repr prints): digits d1 d2 ... dn    *)
(*     and an exponent stand for d1.d2...dn * 10^exp; zero has no digits.  *)
(*   - A natural number of any size is the sequence of its decimal         *)
(*     digits, most significant first; the empty sequence is 0.            *)
(***************************************************************************)

\* The characters with the Unicode property White_Space that a string of
\* this module can hold: U+0009, U+000A, U+000B, U+000C, U+000D, U+0020,
\* U+0085, U+00A0 and U+1680, in this order.  U+2000..U+200A, U+2028,
\* U+2029, U+202F, U+205F and U+3000 have the property too and cannot be
\* written in a string here.
Whitespace == {"\t", "\n", "", "\f", "\r", " ", "", " ", " "}

TrimLeft(cs) ==
    IF \A i \in 1..Len(cs) : cs[i] \in Whitespace THEN <<>>
    ELSE SubSeq(cs, CHOOSE i \in 1..Len(cs) :
                        cs[i] \notin Whitespace /\ \A k \in 1..(i - 1) : cs[k] \in Whitespace,
                Len(cs))

TrimRight(cs) ==
    IF \A i \in 1..Len(cs) : cs[i] \in Whitespace THEN <<>>
    ELSE SubSeq(cs, 1, CHOOSE i \in 1..Len(cs) :
                           cs[i] \notin Whitespace
                           /\ \A k \in (i + 1)..Len(cs) : cs[k] \in Whitespace)

Trim(cs) == TrimRight(TrimLeft(cs))

\* Underscores between digits are dropped when the string does not read as
\* a float as it stands; not at either end, and not two in a row.
HasSeparators(cs) ==
    /\ Position(cs, "_") # 0
    /\ cs[1] # "_" /\ cs[Len(cs)] # "_"
    /\ \A i \in 1..(Len(cs) - 1) : ~(cs[i] = "_" /\ cs[i + 1] = "_")

WithoutSeparators(cs) == SelectSeq(cs, LAMBDA c : c # "_")

Digits == Chars("0123456789")

IsDigits(cs) == \A i \in 1..Len(cs) : Position(Digits, cs[i]) # 0

DigitValues(cs) == [i \in 1..Len(cs) |-> Position(Digits, cs[i]) - 1]

LeadingZeros(ds) ==
    IF \A i \in 1..Len(ds) : ds[i] = 0 THEN Len(ds)
    ELSE (CHOOSE i \in 1..Len(ds) : ds[i] # 0 /\ \A k \in 1..(i - 1) : ds[k] = 0) - 1

TrailingZeros(ds) ==
    IF \A i \in 1..Len(ds) : ds[i] = 0 THEN Len(ds)
    ELSE Len(ds) - (CHOOSE i \in 1..Len(ds) :
                        ds[i] # 0 /\ \A k \in (i + 1)..Len(ds) : ds[k] = 0)

StripZeros(ds) == SubSeq(ds, LeadingZeros(ds) + 1, Len(ds))

RECURSIVE NatOf(_)
NatOf(ds) ==
    IF Len(ds) = 0 THEN 0
    ELSE NatOf(SubSeq(ds, 1, Len(ds) - 1)) * 10 + ds[Len(ds)]

\* The parser adds an exponent digit while the exponent read so far is
\* below 0x10000, and skips the digits after that.
ExponentLimit == 65536

\* The exponent written by a run of digits: the first n of them past the
\* leading zeros, n the fewest that reach ExponentLimit.  Six digits reach
\* it whatever they are.
ExponentOf(ds) ==
    LET sig == StripZeros(ds)
        Read(m) == NatOf(SubSeq(sig, 1, m))
        taken == CHOOSE t \in 0..(IF Len(sig) < 6 THEN Len(sig) ELSE 6) :
                     /\ t = Len(sig) \/ Read(t) >= ExponentLimit
                     /\ \A k \in 0..(t - 1) : Read(k) < ExponentLimit
    IN  Read(taken)

Before(cs, c) == IF Position(cs, c) = 0 THEN cs ELSE SubSeq(cs, 1, Position(cs, c) - 1)
After(cs, c) == IF Position(cs, c) = 0 THEN <<>> ELSE SubSeq(cs, Position(cs, c) + 1, Len(cs))

Negative(cs) == Len(cs) > 0 /\ cs[1] = "-"
Unsigned(cs) == IF Len(cs) > 0 /\ cs[1] \in {"+", "-"} THEN Tail(cs) ELSE cs

\* digits [. digits] [e [sign] digits], with a digit before the exponent.
IsDecimal(cs) ==
    LET m == Before(cs, "e")
        x == Unsigned(After(cs, "e"))
    IN  /\ IsDigits(Before(m, ".")) /\ IsDigits(After(m, "."))
        /\ Len(Before(m, ".")) + Len(After(m, ".")) > 0
        /\ Position(cs, "e") # 0 => (Len(x) > 0 /\ IsDigits(x))

Infinities == {Chars("inf"), Chars("infinity")}
NotANumber == Chars("nan")

IsFloatLiteral(cs) ==
    LET b == Unsigned(cs)
    IN  b \in Infinities \/ b = NotANumber \/ IsDecimal(b)

\* The decimal a literal writes: its significant digits and the exponent
\* of the first of them.
Decimal(cs) ==
    LET m   == Before(cs, "e")
        ip  == Before(m, ".")
        x   == After(cs, "e")
        e   == IF Negative(x) THEN 0 - ExponentOf(DigitValues(Unsigned(x)))
                              ELSE ExponentOf(DigitValues(Unsigned(x)))
        all == DigitValues(ip \o After(m, "."))
        z   == LeadingZeros(all)
    IN  IF z = Len(all) THEN [digits |-> <<>>, exp |-> 0]
        ELSE [digits |-> SubSeq(all, z + 1, Len(all) - TrailingZeros(all)),
              exp    |-> Len(ip) + e - z - 1]

\* Arithmetic on natural numbers of any size.  A carry comes from the
\* nearest lower place whose digits do not add up to 9, a borrow from the
\* nearest lower place whose digits differ.
DigitsOf(n) ==
    StripZeros([p \in 1..10 |-> (n \div 10^(10 - p)) % 10])

FromRight(a, i) == IF i <= Len(a) THEN a[Len(a) + 1 - i] ELSE 0

NatPlus(a, b) ==
    LET n == (IF Len(a) > Len(b) THEN Len(a) ELSE Len(b)) + 1
        S(i) == FromRight(a, i) + FromRight(b, i)
        Carry(i) ==
            /\ \E d \in 1..(i - 1) : S(i - d) # 9
            /\ S(i - (CHOOSE d \in 1..(i - 1) :
                          S(i - d) # 9 /\ \A c \in 1..(d - 1) : S(i - c) = 9)) > 9
    IN  StripZeros([p \in 1..n |->
                       (S(n + 1 - p) + (IF Carry(n + 1 - p) THEN 1 ELSE 0)) % 10])

\* a - b, for a >= b.
NatMinus(a, b) ==
    LET D(i) == FromRight(a, i) - FromRight(b, i)
        Borrow(i) ==
            /\ \E d \in 1..(i - 1) : D(i - d) # 0
            /\ D(i - (CHOOSE d \in 1..(i - 1) :
                          D(i - d) # 0 /\ \A c \in 1..(d - 1) : D(i - c) = 0)) < 0
    IN  StripZeros([p \in 1..Len(a) |->
                       (D(Len(a) + 1 - p) - (IF Borrow(Len(a) + 1 - p) THEN 1 ELSE 0) + 10) % 10])

NatLess(a, b) ==
    \/ Len(a) < Len(b)
    \/ /\ Len(a) = Len(b)
       /\ \E i \in 1..Len(a) : a[i] < b[i] /\ \A k \in 1..(i - 1) : a[k] = b[k]

NatLeq(a, b) == ~NatLess(b, a)

TimesTen(a, n) == IF Len(a) = 0 THEN a ELSE a \o [i \in 1..n |-> 0]

Double(a) == NatPlus(a, a)

\* a * k for 0 < k <= 10^8: the digits of the products a[i] * k are added
\* up place by place, and the tens of the sums are carried in one addition.
TimesSmall(a, k) ==
    LET n == Len(a) + 9
        Term(i, j) == IF i - j < 1 THEN 0 ELSE ((FromRight(a, i - j) * k) \div 10^j) % 10
        Column(i) == Term(i, 0) + Term(i, 1) + Term(i, 2) + Term(i, 3) + Term(i, 4)
                         + Term(i, 5) + Term(i, 6) + Term(i, 7) + Term(i, 8)
        sums == SubSeq([p \in 1..n |-> Column(n + 1 - p)], 1, n)
    IN  NatPlus(StripZeros([p \in 1..n |-> sums[p] % 10]),
                TimesTen(StripZeros([p \in 1..n |-> sums[p] \div 10]), 1))

\* The largest powers that TimesSmall takes: 2^26 and 5^11 are below 10^8.
MaxPow2 == 26
MaxPow5 == 11

RECURSIVE TimesPow2(_, _)
TimesPow2(a, n) ==
    IF n = 0 \/ Len(a) = 0 THEN a
    ELSE IF n <= MaxPow2 THEN TimesSmall(a, 2^n)
    ELSE LET half == TimesPow2(a, n \div 2)
         IN  IF Len(half) = 0 THEN half ELSE TimesPow2(half, n - n \div 2)

RECURSIVE TimesPow5(_, _)
TimesPow5(a, n) ==
    IF n = 0 \/ Len(a) = 0 THEN a
    ELSE IF n <= MaxPow5 THEN TimesSmall(a, 5^n)
    ELSE LET half == TimesPow5(a, n \div 2)
         IN  IF Len(half) = 0 THEN half ELSE TimesPow5(half, n - n \div 2)

\* IEEE 754 binary64: a mantissa of 53 bits times 2^e, -1074 <= e <= 971.
MantissaBits == 53
MinExponent == -1074
MaxExponent == 971
\* Every decimal of at most 15 significant digits survives the round trip
\* through a normal double, so it is the shortest decimal of its double;
\* the normal doubles include 10^-307 up to 10^308.
DecimalDigits == 15
MinDecimalExponent == -307
MaxDecimalExponent == 307

\* den * 2^t <= num; the lengths settle it when den * 2^t is the longer.
FitsTimesPow2(den, t, num) ==
    /\ Len(den) + (3 * t) \div 10 <= Len(num)
    /\ NatLeq(TimesPow2(den, t), num)

\* The largest t' in t .. t + 2s - 1 with den * 2^t' <= num, for s a
\* power of two and den * 2^t <= num < den * 2^(t + 2s).
RECURSIVE MostDoublings(_, _, _, _)
MostDoublings(den, num, t, s) ==
    IF s = 0 THEN t
    ELSE IF FitsTimesPow2(den, t + s, num) THEN MostDoublings(den, num, t + s, s \div 2)
    ELSE MostDoublings(den, num, t, s \div 2)

\* The first n binary digits of num / den < 2, and what is left, doubled.
RECURSIVE Bits(_, _, _)
Bits(num, den, n) ==
    IF n = 0 THEN [bits |-> <<>>, rest |-> num]
    ELSE IF n = 1
         THEN IF NatLeq(den, num)
              THEN [bits |-> <<1>>, rest |-> Double(NatMinus(num, den))]
              ELSE [bits |-> <<0>>, rest |-> Double(num)]
    ELSE LET first  == Bits(num, den, n \div 2)
             second == Bits(first.rest, den, n - n \div 2)
         IN  IF Len(first.rest) = 0
             THEN [bits |-> first.bits \o [i \in 1..(n - n \div 2) |-> 0], rest |-> <<>>]
             ELSE [bits |-> first.bits \o second.bits, rest |-> second.rest]

\* A mantissa plus one; one bit longer when every bit was set.
PlusOne(bits) ==
    IF \A i \in 1..Len(bits) : bits[i] = 1 THEN <<1>> \o [i \in 1..Len(bits) |-> 0]
    ELSE LET z == CHOOSE i \in 1..Len(bits) :
                      bits[i] = 0 /\ \A k \in (i + 1)..Len(bits) : bits[k] = 1
         IN  SubSeq([i \in 1..Len(bits) |->
                        IF i < z THEN bits[i] ELSE IF i = z THEN 1 ELSE 0], 1, Len(bits))

\* A quotient of 53 bits rounded to nearest, ties to the even mantissa:
\* the bits and the binary exponent e of the last of them.  q.rest is what
\* the division left, doubled.
RoundBits(q, den, e) ==
    LET more == \/ NatLess(den, q.rest)
                \/ NatLeq(den, q.rest) /\ q.bits[MantissaBits] = 1
        m    == IF more THEN PlusOne(q.bits) ELSE q.bits
    IN  IF Len(m) > MantissaBits THEN [bits |-> SubSeq(m, 1, MantissaBits), e |-> e + 1]
        ELSE [bits |-> m, e |-> e]

RoundQuotient(num, den, t) == RoundBits(Bits(num, den, MantissaBits), den, t - (MantissaBits - 1))

\* num / den * 2^-t, the quotient that has its first bit before the point.
RoundShifted(num, den, t) ==
    IF t >= 0 THEN RoundQuotient(num, TimesPow2(den, t), t)
    ELSE RoundQuotient(TimesPow2(num, 0 - t), den, t)

\* The exponent of the smallest normal double, 2^-1022.
MinNormalExponent == MinExponent + MantissaBits - 1

\* The t with 2^t <= num / den < 2^(t + 1), and not below the exponent of
\* the smallest normal double.
BinaryExponent(num, den) ==
    IF NatLeq(den, num) THEN MostDoublings(den, num, 0, 2^10)
    ELSE LET t == 0 - (MostDoublings(num, NatMinus(den, <<1>>), 0, 2^10) + 1)
         IN  IF t < MinNormalExponent THEN MinNormalExponent ELSE t

RoundRatio(num, den) == RoundShifted(num, den, BinaryExponent(num, den))

\* The double nearest to the decimal d1.d2...dn * 10^exp, ties to even:
\* its mantissa bits and the binary exponent e of the last of them; e
\* above MaxExponent is infinite.
RoundToDouble(digits, exp) ==
    IF exp >= Len(digits) - 1
    THEN RoundRatio(TimesTen(digits, exp - (Len(digits) - 1)), <<1>>)
    ELSE RoundRatio(digits, TimesTen(<<1>>, (Len(digits) - 1) - exp))

RECURSIVE NatOfBits(_)
NatOfBits(bits) ==
    IF Len(bits) = 0 THEN <<>>
    ELSE IF Len(bits) = 1 THEN (IF bits[1] = 1 THEN <<1>> ELSE <<>>)
    ELSE LET high == NatOfBits(SubSeq(bits, 1, Len(bits) \div 2))
             low  == NatOfBits(SubSeq(bits, Len(bits) \div 2 + 1, Len(bits)))
         IN  IF Len(high) = 0 THEN low
             ELSE IF Len(low) = 0 THEN TimesPow2(high, Len(bits) - Len(bits) \div 2)
             ELSE NatPlus(TimesPow2(high, Len(bits) - Len(bits) \div 2), low)

\* The float values.
Finite(neg, digits, exp) == [kind |-> "fin", neg |-> neg, digits |-> digits, exp |-> exp]
Zero(neg) == Finite(neg, <<>>, 0)
Infinity(neg) == [kind |-> "inf", neg |-> neg, digits |-> <<>>, exp |-> 0]
NaN == [kind |-> "nan", neg |-> FALSE, digits |-> <<>>, exp |-> 0]

\* The shortest decimal that rounds to the double bits * 2^e, and of the
\* shortest the nearest to it.  The decimals that round to the double lie
\* between the midpoints to its neighbours, the midpoints included when
\* the mantissa is even.  v, lo and hi are the double and the midpoints as
\* whole numbers of 10^-f; g is a number of trailing zeros.
Inside(x, lo, hi, closed) ==
    IF closed THEN NatLeq(lo, x) /\ NatLeq(x, hi) ELSE NatLess(lo, x) /\ NatLess(x, hi)

Down(v, g) == IF Len(v) <= g THEN <<>> ELSE TimesTen(SubSeq(v, 1, Len(v) - g), g)

Up(v, g) == NatPlus(Down(v, g), TimesTen(<<1>>, g))

Candidate(v, lo, hi, closed, g) ==
    Inside(Down(v, g), lo, hi, closed) \/ Inside(Up(v, g), lo, hi, closed)

Granularity(v, lo, hi, closed) ==
    CHOOSE g \in 0..Len(hi) :
        /\ Candidate(v, lo, hi, closed, g)
        /\ \A h \in (g + 1)..Len(hi) : ~Candidate(v, lo, hi, closed, h)

NearerDown(v, down, up) == NatLess(NatMinus(v, down), NatMinus(up, v))
NearerUp(v, down, up) == NatLess(NatMinus(up, v), NatMinus(v, down))

Nearest(v, down, up, lo, hi, closed, even) ==
    IF ~Inside(up, lo, hi, closed) THEN down
    ELSE IF ~Inside(down, lo, hi, closed) THEN up
    ELSE IF NearerDown(v, down, up) THEN down
    ELSE IF NearerUp(v, down, up) THEN up
    ELSE IF even THEN down ELSE up

Written(neg, f, best) ==
    Finite(neg, SubSeq(best, 1, Len(best) - TrailingZeros(best)), Len(best) - 1 - f)

AtGranularity(neg, f, v, lo, hi, closed, g) ==
    Written(neg, f, Nearest(v, Down(v, g), Up(v, g), lo, hi, closed, v[Len(v) - g] % 2 = 0))

Between(neg, f, v, lo, hi, closed) ==
    IF Len(v) = 0 \/ Len(hi) = 0 THEN Zero(neg)
    ELSE AtGranularity(neg, f, v, lo, hi, closed, Granularity(v, lo, hi, closed))

\* a * 2^(e - 2) as a whole number of 10^-f, f = 2 - e where e < 2.
Whole(a, e) == IF e >= 2 THEN TimesPow2(a, e - 2) ELSE TimesPow5(a, 2 - e)

\* The lower neighbour is half as far where the mantissa is a power of two.
Narrow(bits, e) == bits[1] = 1 /\ e > MinExponent /\ \A i \in 2..Len(bits) : bits[i] = 0

\* q4 is four times the mantissa: the midpoints are q4 - 2 (q4 - 1) and
\* q4 + 2, times 2^(e - 2).
Midpoints(neg, e, q4, narrow, closed) ==
    IF Len(q4) = 0 THEN Zero(neg)
    ELSE Between(neg, IF e >= 2 THEN 0 ELSE 2 - e,
                 Whole(q4, e),
                 Whole(NatMinus(q4, IF narrow THEN <<1>> ELSE <<2>>), e),
                 Whole(NatPlus(q4, <<2>>), e),
                 closed)

Shortest(neg, bits, e) ==
    Midpoints(neg, e, TimesPow2(NatOfBits(bits), 2), Narrow(bits, e), bits[Len(bits)] = 0)

FloatOfDouble(neg, d) ==
    IF d.e > MaxExponent THEN Infinity(neg)
    ELSE IF \A i \in 1..Len(d.bits) : d.bits[i] = 0 THEN Zero(neg)
    ELSE Shortest(neg, d.bits, d.e)

\* The float value of the decimal d1.d2...dn * 10^exp.
FloatOfDecimal(neg, digits, exp) ==
    IF Len(digits) = 0 THEN Zero(neg)
    ELSE IF /\ Len(digits) <= DecimalDigits
            /\ MinDecimalExponent <= exp /\ exp <= MaxDecimalExponent
         THEN Finite(neg, digits, exp)
    ELSE IF exp > MaxDecimalExponent + 2 THEN Infinity(neg)
    ELSE IF exp < MinDecimalExponent - 24 THEN Zero(neg)
    ELSE FloatOfDouble(neg, RoundToDouble(digits, exp))

\* The double itself, bits * 2^e, in hundredths, rounded to the nearest
\* whole number of them, ties to the even one: w is bits * 100 * 5^k, the
\* double in units of 10^-(k + 2), for k = -e.
CutRounded(w, k) ==
    LET whole == IF Len(w) <= k THEN <<>> ELSE SubSeq(w, 1, Len(w) - k)
        first == FromRight(w, k)
        more  == \E i \in 1..(k - 1) : FromRight(w, i) # 0
        odd   == FromRight(w, k + 1) % 2 = 1
    IN  IF first > 5 \/ (first = 5 /\ (more \/ odd)) THEN NatPlus(whole, <<1>>) ELSE whole

HundredthsOf(q100, e) ==
    IF e >= 0 THEN TimesPow2(q100, e) ELSE CutRounded(TimesPow5(q100, 0 - e), 0 - e)

HundredthsOfDouble(d) == HundredthsOf(TimesTen(NatOfBits(d.bits), 2), d.e)

DigitChars(ds) == Join([i \in 1..Len(ds) |-> Digits[ds[i] + 1]])

\* The text of a number of hundredths h, with two decimals.
FixedText(neg, h) ==
    (IF neg THEN "-" ELSE "")
    \o (IF Len(h) <= 2 THEN "0" ELSE DigitChars(SubSeq(h, 1, Len(h) - 2)))
    \o "." \o DigitChars(<<FromRight(h, 2), FromRight(h, 1)>>)

\* format(x, ".2f")
FormatFixed2(x) ==
    IF x.kind = "nan" THEN "nan"
    ELSE IF x.kind = "inf" THEN (IF x.neg THEN "-inf" ELSE "inf")
    ELSE IF Len(x.digits) = 0 THEN FixedText(x.neg, <<>>)
    ELSE FixedText(x.neg, HundredthsOfDouble(RoundToDouble(x.digits, x.exp)))

\* A number given in tenths, as the JSON numbers and the bounds here are.
FloatOfTenths(n) ==
    LET ds == DigitsOf(IF n < 0 THEN 0 - n ELSE n)
    IN  FloatOfDecimal(n < 0, SubSeq(ds, 1, Len(ds) - TrailingZeros(ds)), Len(ds) - 2)

\* A string read as a float: whether it is one, and which.
FloatOfString(s) ==
    LET raw == Chars(LowerCase(s))
        cs  == IF IsFloatLiteral(Trim(raw)) THEN Trim(raw)
               ELSE IF HasSeparators(raw) /\ IsFloatLiteral(WithoutSeparators(raw))
                    THEN WithoutSeparators(raw)
                    ELSE <<>>
        b   == Unsigned(cs)
    IN  IF Len(cs) = 0 THEN [ok |-> FALSE, value |-> NaN]
        ELSE IF b = NotANumber THEN [ok |-> TRUE, value |-> NaN]
        ELSE IF b \in Infinities THEN [ok |-> TRUE, value |-> Infinity(Negative(cs))]
        ELSE [ok    |-> TRUE,
              value |-> FloatOfDecimal(Negative(cs), Decimal(b).digits, Decimal(b).exp)]

\* float: a JSON number, a JSON bool (true is 1.0) or a float literal.
IsFloat(j) ==
    \/ j.t = "num"
    \/ j.t = "bool"
    \/ j.t = "str" /\ FloatOfString(j.v).ok

\* The coerced number.
AsFloat(j) ==
    CASE j.t = "num" -> FloatOfTenths(j.v)
      [] j.t = "bool" -> FloatOfTenths(IF j.v THEN 10 ELSE 0)
      [] OTHER -> FloatOfString(j.v).value

\* Order of the float values; nan compares false with everything.
DigitAt(ds, i) == IF i <= Len(ds) THEN ds[i] ELSE 0

MagnitudeLess(a, b) ==
    IF a.kind = "inf" \/ (b.kind = "fin" /\ Len(b.digits) = 0) THEN FALSE
    ELSE IF b.kind = "inf" \/ Len(a.digits) = 0 THEN TRUE
    ELSE \/ a.exp < b.exp
         \/ /\ a.exp = b.exp
            /\ \E i \in 1..(Len(a.digits) + Len(b.digits)) :
                   /\ DigitAt(a.digits, i) < DigitAt(b.digits, i)
                   /\ \A k \in 1..(i - 1) : DigitAt(a.digits, k) = DigitAt(b.digits, k)

IsZero(a) == a.kind = "fin" /\ Len(a.digits) = 0

FloatLess(a, b) ==
    /\ a.kind # "nan" /\ b.kind # "nan"
    /\ ~(IsZero(a) /\ IsZero(b))
    /\ IF a.neg # b.neg THEN a.neg
       ELSE IF a.neg THEN MagnitudeLess(b, a) ELSE MagnitudeLess(a, b)

FloatLeq(a, b) == a.kind # "nan" /\ b.kind # "nan" /\ ~FloatLess(b, a)

FloatAtLeast(j, ge) == IsFloat(j) /\ FloatLeq(FloatOfTenths(ge), AsFloat(j))
FloatAtMost(j, le) == IsFloat(j) /\ FloatLeq(AsFloat(j), FloatOfTenths(le))

IsFloatBetween(j, ge, le) == FloatAtLeast(j, ge) /\ FloatAtMost(j, le)

Texts(j) == [i \in 1..Len(j.v) |-> j.v[i].v]

(***************************************************************************)
(* class EmailTask(BaseModel)                                              *)
(***************************************************************************)
PriorityLevels == {"high", "medium", "low"}

\* priority annotated str instead of Literal.
PriorityAnyStr(j) == IsStr(j)

PriorityOk(j) == IsLiteral(j, PriorityLevels)

\* deadline declared without its default None.
DeadlineRequired(j) == j = Null \/ IsStr(j)

\* Optional[str] accepts null; the default None accepts an absent key.
DeadlineOk(j) == j = Missing \/ j = Null \/ IsStr(j)

EmailTaskValid(raw) ==
    /\ IsStr(raw.sender)
    /\ IsStr(raw.date)
    /\ IsListOfStr(raw.action_items)
    /\ PriorityOk(raw.priority)
    /\ DeadlineOk(raw.deadline)
    /\ IsStr(raw.context)

EmailTask(raw) ==
    [sender       |-> raw.sender.v,
     date         |-> raw.date.v,
     action_items |-> Texts(raw.action_items),
     priority     |-> raw.priority.v,
     deadline     |-> IF IsStr(raw.deadline) THEN Some(raw.deadline.v) ELSE None,
     context      |-> raw.context.v]

(***************************************************************************)
(* class SentimentIndicator(BaseModel)                                     *)
(***************************************************************************)
SentimentLevels == {"very_positive", "positive", "neutral", "negative", "very_negative"}
Categories == {"product", "service", "price", "support", "delivery", "overall"}

SentimentIndicatorValid(j) ==
    /\ j.t = "obj"
    /\ IsStr(j.v.phrase)
    /\ IsLiteral(j.v.sentiment_impact, SentimentLevels)
    /\ IsLiteral(j.v.category, Categories)

SentimentIndicator(j) ==
    [phrase           |-> j.v.phrase.v,
     sentiment_impact |-> j.v.sentiment_impact.v,
     category         |-> j.v.category.v]

(***************************************************************************)
(* class CustomerSentimentAnalysis(BaseModel)                              *)
(***************************************************************************)
Emotions == {"delighted", "satisfied", "neutral", "frustrated", "angry"}
ChurnRisks == {"low", "medium", "high"}
FollowupPriorities == {"urgent", "high", "medium", "low"}
TemplateTypes == {"apology", "thank_you", "clarification", "resolution"}

ScoreMin == -10   \* ge=-1.0
ScoreMax == 10    \* le=1.0

\* sentiment_score declared without le=1.0.
ScoreNoUpperBound(j) == FloatAtLeast(j, ScoreMin)

ScoreOk(j) == IsFloatBetween(j, ScoreMin, ScoreMax)

\* Only the first element of the list validated.
IndicatorsOkFirstOnly(j) ==
    j.t = "list" /\ (j.v # <<>> => SentimentIndicatorValid(j.v[1]))

IndicatorsOk(j) ==
    j.t = "list" /\ \A i \in 1..Len(j.v) : SentimentIndicatorValid(j.v[i])

SentimentFieldsValid(raw) ==
    /\ IsLiteral(raw.overall_sentiment, SentimentLevels)
    /\ ScoreOk(raw.sentiment_score)
    /\ IndicatorsOk(raw.key_sentiment_indicators)
    /\ IsListOfStr(raw.positive_aspects)
    /\ IsListOfStr(raw.negative_aspects)
    /\ IsListOfStr(raw.improvement_suggestions)
    /\ IsLiteral(raw.emotion_detected, Emotions)
    /\ IsLiteral(raw.churn_risk, ChurnRisks)
    /\ IsBool(raw.requires_followup)
    /\ IsLiteral(raw.followup_priority, FollowupPriorities)
    /\ IsListOfStr(raw.recommended_actions)
    /\ IsLiteral(raw.response_template_type, TemplateTypes)
    /\ IsStr(raw.executive_summary_spanish)

\* A model validator relating the follow-up fields.
SentimentValidWithFollowupRule(raw) ==
    /\ SentimentFieldsValid(raw)
    /\ (AsBool(raw.requires_followup) /\ raw.followup_priority.v = "urgent")
           => raw.recommended_actions.v # <<>>

\* The fields are validated one by one; the class declares no validator
\* that relates two fields.
CustomerSentimentAnalysisValid(raw) == SentimentFieldsValid(raw)

CustomerSentimentAnalysis(raw) ==
    [overall_sentiment         |-> raw.overall_sentiment.v,
     sentiment_score           |-> AsFloat(raw.sentiment_score),
     key_sentiment_indicators  |->
         [i \in 1..Len(raw.key_sentiment_indicators.v) |->
             SentimentIndicator(raw.key_sentiment_indicators.v[i])],
     positive_aspects          |-> Texts(raw.positive_aspects),
     negative_aspects          |-> Texts(raw.negative_aspects),
     improvement_suggestions   |-> Texts(raw.improvement_suggestions),
     emotion_detected          |-> raw.emotion_detected.v,
     churn_risk                |-> raw.churn_risk.v,
     requires_followup         |-> AsBool(raw.requires_followup),
     followup_priority         |-> raw.followup_priority.v,
     recommended_actions       |-> Texts(raw.recommended_actions),
     response_template_type    |-> raw.response_template_type.v,
     executive_summary_spanish |-> raw.executive_summary_spanish.v]

Valid(k, raw) ==
    IF k = "email" THEN EmailTaskValid(raw) ELSE CustomerSentimentAnalysisValid(raw)

Construct(k, raw) ==
    IF k = "email" THEN EmailTask(raw) ELSE CustomerSentimentAnalysis(raw)

(***************************************************************************)
(* The request of one invocation: the arguments of                         *)
(* client.chat.completions.parse.  A message's content is a sequence of    *)
(* pieces: the literal part of the source as one piece, then the           *)
(* characters of the interpolated text.                                    *)
(***************************************************************************)
MODEL_NAME == "MODEL_NAME"

EmailSystemPrompt == "You are a task extraction specialist. ..."
EmailUserPrefix == "Extract tasks from this email:\n"
SentimentSystemPrompt == "You are a customer experience analyst. ..."
SentimentUserPrefix == "Analyze this customer feedback:\n"

Temperature == 3             \* temperature=0.3
MaxCompletionTokens == 500   \* max_completion_tokens=500

SystemPrompt(k) == IF k = "email" THEN EmailSystemPrompt ELSE SentimentSystemPrompt
UserPrefix(k) == IF k = "email" THEN EmailUserPrefix ELSE SentimentUserPrefix
ResponseFormat(k) == IF k = "email" THEN "EmailTask" ELSE "CustomerSentimentAnalysis"

SystemMessage(k) == [role |-> "system", content |-> <<SystemPrompt(k)>>]
RECURSIVE StripLeft(_)
StripLeft(text) ==
    IF text # <<>> /\ Head(text) = Blank THEN StripLeft(Tail(text)) ELSE text

RECURSIVE StripRight(_)
StripRight(text) ==
    IF text # <<>> /\ text[Len(text)] = Blank
    THEN StripRight(SubSeq(text, 1, Len(text) - 1))
    ELSE text

\* The argument interpolated after .strip().
UserMessageStripped(k, text) ==
    [role |-> "user", content |-> <<UserPrefix(k)>> \o StripLeft(StripRight(text))]

UserMessage(k, text) == [role |-> "user", content |-> <<UserPrefix(k)>> \o text]

\* The user messages of the requests other invocations have submitted so far.
History(k) ==
    LET others == {q \in Invocations : pc[q] # "idle" /\ kind[q] = k}
        q1 == CHOOSE q \in others : TRUE
    IN  IF others = {} THEN <<>> ELSE <<request[q1].messages[Len(request[q1].messages)]>>

\* A message list kept across invocations and appended to.
MessagesWithHistory(k, text) == <<SystemMessage(k)>> \o History(k) \o <<UserMessage(k, text)>>

\* A fresh two-element list literal per invocation.
Messages(k, text) == <<SystemMessage(k), UserMessage(k, text)>>

Request(k, text) ==
    [model                 |-> MODEL_NAME,
     messages              |-> Messages(k, text),
     response_format       |-> ResponseFormat(k),
     temperature           |-> Temperature,
     max_completion_tokens |-> IF k = "email" THEN Some(MaxCompletionTokens) ELSE None]

(***************************************************************************)
(* What the collaborator may answer: a transport/auth/quota error, a       *)
(* completion whose message carries no parsed content (a refusal), or a    *)
(* completion whose content is a JSON object.  The objects are a           *)
(* conformant one and its variants in one field (and in the fields a       *)
(* claim relates).                                                         *)
(***************************************************************************)
Subst(base, f, values) == {[base EXCEPT ![f] = v] : v \in values}

TextLists(items) == {List(s) : s \in SeqsUpTo(items, MaxItems)}

EmailBase ==
    [sender       |-> Str("sarah"),
     date         |-> Str("monday"),
     action_items |-> List(<<Str("review")>>),
     priority     |-> Str("high"),
     deadline     |-> Str("tomorrow"),
     context      |-> Str("q2 planning")]

EmailRequired == {"sender", "date", "action_items", "priority", "context"}

EmailBodies ==
    {EmailBase}
    \cup Subst(EmailBase, "sender", {Missing, Null})
    \cup Subst(EmailBase, "date", {Missing})
    \cup Subst(EmailBase, "action_items", {Missing} \cup TextLists({Str("review"), Str("send")}))
    \cup Subst(EmailBase, "priority", {Missing, Str("medium"), Str("low"), Str("super_urgent")})
    \cup Subst(EmailBase, "deadline", {Missing, Null})
    \cup Subst(EmailBase, "context", {Missing})
    \cup UNION {Subst([EmailBase EXCEPT !.deadline = Missing], f, {Missing}) : f \in EmailRequired}

GoodIndicator1 ==
    Obj([phrase |-> Str("absolutely terrible"), sentiment_impact |-> Str("very_negative"),
         category |-> Str("service")])
GoodIndicator2 ==
    Obj([phrase |-> Str("quality is still good"), sentiment_impact |-> Str("positive"),
         category |-> Str("product")])
BadImpactIndicator ==
    Obj([phrase |-> Str("meh"), sentiment_impact |-> Str("mixed"), category |-> Str("overall")])
BadCategoryIndicator ==
    Obj([phrase |-> Str("late"), sentiment_impact |-> Str("negative"), category |-> Str("billing")])
NoPhraseIndicator ==
    Obj([phrase |-> Missing, sentiment_impact |-> Str("neutral"), category |-> Str("price")])

IndicatorLists ==
    {List(s) : s \in SeqsUpTo({GoodIndicator1, GoodIndicator2, BadImpactIndicator}, MaxIndicators)}
    \cup {List(<<BadCategoryIndicator>>), List(<<NoPhraseIndicator>>)}

SentimentBase ==
    [overall_sentiment         |-> Str("negative"),
     sentiment_score           |-> Num(-5),
     key_sentiment_indicators  |-> List(<<GoodIndicator1>>),
     positive_aspects          |-> List(<<Str("quality")>>),
     negative_aspects          |-> List(<<Str("support")>>),
     improvement_suggestions   |-> List(<<Str("train agents")>>),
     emotion_detected          |-> Str("frustrated"),
     churn_risk                |-> Str("high"),
     requires_followup         |-> Bool(TRUE),
     followup_priority         |-> Str("urgent"),
     recommended_actions       |-> List(<<Str("call")>>),
     response_template_type    |-> Str("apology"),
     executive_summary_spanish |-> Str("resumen")]

FollowupBodies ==
    {[SentimentBase EXCEPT !.requires_followup = Bool(b),
                           !.followup_priority = Str(fp),
                           !.recommended_actions = ra] :
        b \in BOOLEAN, fp \in {"urgent", "low"}, ra \in TextLists({Str("call")})}

SentimentBodies ==
    {SentimentBase}
    \cup Subst(SentimentBase, "overall_sentiment", {Missing, Str("positive"), Str("mixed")})
    \cup Subst(SentimentBase, "sentiment_score",
               {Missing, Num(-20), Num(-11), Num(-10), Num(10), Num(11), Num(15),
                Bool(TRUE), Bool(FALSE), Str("high"),
                Str("0.5"), Str("-1"), Str("1e0"), Str("1.5"), Str("-2.0"),
                Str("1"), Str(" 0.5"), Str("-0.5"), Str("1.05"), Str("nan"),
                Str("0.555")})
    \cup Subst(SentimentBase, "key_sentiment_indicators", {Missing} \cup IndicatorLists)
    \cup Subst(SentimentBase, "positive_aspects", {Missing, List(<<>>)})
    \cup Subst(SentimentBase, "negative_aspects", {Missing, List(<<>>)})
    \cup Subst(SentimentBase, "improvement_suggestions", {Missing, List(<<>>)})
    \cup Subst(SentimentBase, "emotion_detected", {Missing, Str("furious")})
    \cup Subst(SentimentBase, "churn_risk", {Missing, Str("critical")})
    \cup Subst(SentimentBase, "requires_followup",
               {Missing, Num(10), Num(0), Num(5), Str("true"), Str("YES"), Str("no"),
                Str("OFF"), Str("maybe"), Str("TRUE"), Str("No")})
    \cup Subst(SentimentBase, "followup_priority", {Missing, Str("critical")})
    \cup Subst(SentimentBase, "recommended_actions", {Missing})
    \cup Subst(SentimentBase, "response_template_type", {Missing, Str("refund")})
    \cup Subst(SentimentBase, "executive_summary_spanish", {Missing})
    \cup FollowupBodies

Bodies(k) == IF k = "email" THEN EmailBodies ELSE SentimentBodies

ApiError == [t |-> "error"]
Refusal == [t |-> "refusal"]
Content(body) == [t |-> "content", body |-> body]

Replies(k) == {ApiError, Refusal} \cup {Content(b) : b \in Bodies(k)}

(***************************************************************************)
(* Outcomes of an invocation.                                              *)
(***************************************************************************)
Pending == [tag |-> "pending"]
ReturnedNone == [tag |-> "none"]
Returned(rec) == [tag |-> "record", value |-> rec]
Failure(e) == [tag |-> "failure", error |-> e]

NoRequest == [model |-> "", messages |-> <<>>]
NoResponse == [t |-> "nothing"]

\* client.chat.completions.parse(...) followed by .choices[0].message.parsed:
\* an API error and a validation error propagate as exceptions; a message
\* without parsed content has parsed = None, and None is what is returned.
ParseCompletion(k, resp) ==
    IF resp.t = "error" THEN Failure("CollaboratorUnavailable")
    ELSE IF resp.t = "refusal" THEN ReturnedNone
    ELSE IF Valid(k, resp.body) THEN Returned(Construct(k, resp.body))
    ELSE Failure("SchemaViolation")

(***************************************************************************)
(* The state machine.                                                      *)
(***************************************************************************)
Start ==
    /\ pc = [p \in Invocations |-> "idle"]
    /\ kind = [p \in Invocations |-> "unset"]
    /\ input = [p \in Invocations |-> <<>>]
    /\ request = [p \in Invocations |-> NoRequest]
    /\ calls = [p \in Invocations |-> 0]
    /\ response = [p \in Invocations |-> NoResponse]
    /\ outcome = [p \in Invocations |-> Pending]
    /\ stub = {}
    /\ assigns = [p \in Invocations |-> 0]
    /\ shown = [p \in Invocations |-> <<>>]

Init == mode = "live" /\ Start

InitStub == mode = "stub" /\ Start

\* str.strip() == "": empty or whitespace-only.
IsBlank(text) == \A i \in 1..Len(text) : text[i] = Blank

\* An input guard ahead of the call, which the source does not have.
CallRejectingBlank(p) ==
    /\ pc[p] = "idle"
    /\ \E k \in Kinds, text \in Inputs :
        /\ kind' = [kind EXCEPT ![p] = k]
        /\ input' = [input EXCEPT ![p] = text]
        /\ IF IsBlank(text)
           THEN /\ outcome' = [outcome EXCEPT ![p] = Failure("EmptyInput")]
                /\ pc' = [pc EXCEPT ![p] = "done"]
                /\ UNCHANGED <<request, calls>>
           ELSE /\ request' = [request EXCEPT ![p] = Request(k, text)]
                /\ calls' = [calls EXCEPT ![p] = @ + 1]
                /\ pc' = [pc EXCEPT ![p] = "called"]
                /\ UNCHANGED outcome
    /\ UNCHANGED <<mode, response, stub, assigns, shown>>

\* parse_email_to_tasks(email_content) / analyze_customer_sentiment(feedback)
\* up to the submission of the request: the argument goes into the user
\* message as it is, whatever it is.
Call(p) ==
    /\ pc[p] = "idle"
    /\ \E k \in Kinds, text \in Inputs :
        /\ kind' = [kind EXCEPT ![p] = k]
        /\ input' = [input EXCEPT ![p] = text]
        /\ request' = [request EXCEPT ![p] = Request(k, text)]
    /\ calls' = [calls EXCEPT ![p] = @ + 1]
    /\ pc' = [pc EXCEPT ![p] = "called"]
    /\ UNCHANGED <<mode, response, outcome, stub, assigns, shown>>

\* The collaborator answers the request.  A deterministic stub gives a
\* request it has answered before the answer it gave then.
Respond(p) ==
    /\ pc[p] = "called"
    /\ \E resp \in Replies(kind[p]) :
        /\ mode = "stub" => \A e \in stub : e.req = request[p] => e.resp = resp
        /\ response' = [response EXCEPT ![p] = resp]
        /\ stub' = IF mode = "stub" THEN stub \cup {[req |-> request[p], resp |-> resp]} ELSE stub
    /\ pc' = [pc EXCEPT ![p] = "responded"]
    /\ UNCHANGED <<mode, kind, input, request, calls, outcome, assigns, shown>>

\* A completion kept in a variable all invocations share.
SharedCompletion(p) ==
    LET others == {q \in Invocations \ {p} : pc[q] \in {"responded", "done"} /\ kind[q] = kind[p]}
    IN  IF others = {} THEN response[p] ELSE response[CHOOSE q \in others : TRUE]

\* completion is a local of the invocation.
Completion(p) == response[p]

\* A failed call submitted once more.
ReturnWithRetry(p) ==
    /\ pc[p] = "responded"
    /\ IF ParseCompletion(kind[p], Completion(p)).tag = "failure" /\ calls[p] < 2
       THEN /\ calls' = [calls EXCEPT ![p] = @ + 1]
            /\ pc' = [pc EXCEPT ![p] = "called"]
            /\ response' = [response EXCEPT ![p] = NoResponse]
            /\ UNCHANGED outcome
       ELSE /\ outcome' = [outcome EXCEPT ![p] = ParseCompletion(kind[p], Completion(p))]
            /\ pc' = [pc EXCEPT ![p] = "done"]
            /\ UNCHANGED <<calls, response>>
    /\ UNCHANGED <<mode, kind, input, request, stub, assigns, shown>>

\* The call returns or raises, and the operation returns message.parsed.
Return(p) ==
    /\ pc[p] = "responded"
    /\ outcome' = [outcome EXCEPT ![p] = ParseCompletion(kind[p], Completion(p))]
    /\ pc' = [pc EXCEPT ![p] = "done"]
    /\ UNCHANGED <<mode, kind, input, request, calls, response, stub, assigns, shown>>

Next == \E p \in Invocations : Call(p) \/ Respond(p) \/ Return(p)

Spec == Init /\ [][Next]_vars

SpecStub == InitStub /\ [][Next]_vars

(***************************************************************************)
(* What a holder can do with a returned record.  Both classes derive from  *)
(* BaseModel with no model_config: the model is not frozen and an          *)
(* assignment is not validated.  The entry points only read the record.    *)
(***************************************************************************)
Assignable(k) ==
    IF k = "email"
    THEN {<<"priority", "super_urgent">>, <<"priority", "low">>, <<"deadline", None>>}
    ELSE {<<"sentiment_score", FloatOfTenths(15)>>, <<"overall_sentiment", "mixed">>,
          <<"churn_risk", "low">>}

\* record.field = value
SetAttr(p) ==
    /\ pc[p] \in {"done", "shown"}
    /\ outcome[p].tag = "record"
    /\ assigns[p] < MaxAssigns
    /\ \E a \in Assignable(kind[p]) :
        outcome' = [outcome EXCEPT ![p] = Returned([outcome[p].value EXCEPT ![a[1]] = a[2]])]
    /\ assigns' = [assigns EXCEPT ![p] = @ + 1]
    /\ UNCHANGED <<mode, pc, kind, input, request, calls, response, stub, shown>>

TopIndicators == 3   \* result.key_sentiment_indicators[:3]

Take(s, n) == SubSeq(s, 1, IF Len(s) < n THEN Len(s) ELSE n)

Line(label, value) == [label |-> label, value |-> value]

Lines(label, values) == [i \in 1..Len(values) |-> Line(label, values[i])]

\* The prints of 2_email_task_parser.py, in order.
EmailLines(r) ==
    <<Line("Sender", r.sender), Line("Date", r.date), Line("Priority", r.priority),
      Line("Deadline", IF r.deadline = None THEN "None" ELSE r.deadline[1])>>
    \o Lines("Action Item", r.action_items)
    \o <<Line("Context", r.context)>>

\* The prints of customer_sentiment_analyzer.py, in order.
SentimentLines(r) ==
    <<Line("Overall Sentiment", r.overall_sentiment), Line("Score", FormatFixed2(r.sentiment_score)),
      Line("Emotion Detected", r.emotion_detected), Line("Churn Risk", r.churn_risk),
      Line("Requires Follow-up", IF r.requires_followup = TRUE THEN "Yes" ELSE "No"),
      Line("Priority", r.followup_priority)>>
    \o Lines("Positive Aspect", r.positive_aspects)
    \o Lines("Negative Aspect", r.negative_aspects)
    \o Lines("Key Indicator", Take(r.key_sentiment_indicators, TopIndicators))
    \o Lines("Recommended Action", r.recommended_actions)
    \o <<Line("Response Type", r.response_template_type),
         Line("Executive Summary", r.executive_summary_spanish)>>

AttributeError == Line("AttributeError", "NoneType")

Printed(k, r) == IF k = "email" THEN EmailLines(r) ELSE SentimentLines(r)

\* A loop that prints a list by popping it.
Consumed(k, r) ==
    IF k = "email" THEN [r EXCEPT !.action_items = <<>>]
    ELSE [r EXCEPT !.recommended_actions = <<>>]

DisplayConsuming(p) ==
    /\ pc[p] = "done"
    /\ outcome[p].tag \in {"record", "none"}
    /\ IF outcome[p].tag = "record"
       THEN /\ shown' = [shown EXCEPT ![p] = Printed(kind[p], outcome[p].value)]
            /\ outcome' = [outcome EXCEPT ![p] =
                               Returned(Consumed(kind[p], outcome[p].value))]
            /\ pc' = [pc EXCEPT ![p] = "shown"]
       ELSE /\ shown' = [shown EXCEPT ![p] = <<AttributeError>>]
            /\ pc' = [pc EXCEPT ![p] = "crashed"]
            /\ UNCHANGED outcome
    /\ UNCHANGED <<mode, kind, input, request, calls, response, stub, assigns>>

\* The entry point prints the fields of the record; it assigns none.  On a
\* result of None the first attribute access raises AttributeError.
Display(p) ==
    /\ pc[p] = "done"
    /\ outcome[p].tag \in {"record", "none"}
    /\ IF outcome[p].tag = "record"
       THEN /\ shown' = [shown EXCEPT ![p] = Printed(kind[p], outcome[p].value)]
            /\ pc' = [pc EXCEPT ![p] = "shown"]
       ELSE /\ shown' = [shown EXCEPT ![p] = <<AttributeError>>]
            /\ pc' = [pc EXCEPT ![p] = "crashed"]
    /\ UNCHANGED <<mode, kind, input, request, calls, response, outcome, stub, assigns>>

Holder == "i1"

NextHolder ==
    \/ Call(Holder) \/ Respond(Holder) \/ Return(Holder)
    \/ SetAttr(Holder) \/ Display(Holder)

SpecHolder == Init /\ [][NextHolder]_vars

(***************************************************************************)
(* One invocation whose collaborator also answers with scores written as   *)
(* strings at and around the bounds: the decimals next to 1.0 that round   *)
(* to it and those that round to the double above it, scores padded with   *)
(* white space (U+00A0; U+000B and U+0085; tab and line feed),             *)
(* infinities, and decimals longer than a double holds.                    *)
(***************************************************************************)
ScoreLiterals ==
    {"1.0000000000000001", "-1.0000000000000001", "1.0000000000000002",
     "-1.0000000000000002", "0.99999999999999999999", "0.9999999999999999",
     "1.00000000000000011102230246251565404236316680908203125",
     "1.00000000000000011102230246251565404236316680908203126",
     "1.0000000000000003", "0.55", "-0.30000000000000004", "0.1234567890123456789",
     " 0.5", "0.5", "\t-1.0000000000000001\n", "+1.", ".5E-0", "1e-400", "1e400",
     "inf", "-Infinity", "-0.0", "0_1", "1_0", "1.0000000000000001 5"}

ScoreBodies == Subst(SentimentBase, "sentiment_score", {Str(s) : s \in ScoreLiterals})

ScoreReplies(k) ==
    Replies(k) \cup (IF k = "sentiment" THEN {Content(b) : b \in ScoreBodies} ELSE {})

RespondScore(p) ==
    /\ pc[p] = "called"
    /\ \E resp \in ScoreReplies(kind[p]) : response' = [response EXCEPT ![p] = resp]
    /\ pc' = [pc EXCEPT ![p] = "responded"]
    /\ UNCHANGED <<mode, kind, input, request, calls, outcome, stub, assigns, shown>>

NextScore == Call(Holder) \/ RespondScore(Holder) \/ Return(Holder)

SpecScore == Init /\ [][NextScore]_vars

(***************************************************************************)
(* Claims.                                                                 *)
(***************************************************************************)
Done(p) == pc[p] \in {"done", "shown", "crashed"}

HasRecord(p) == Done(p) /\ outcome[p].tag = "record"

HasContent(p) == pc[p] \in {"responded", "done", "shown", "crashed"} /\ response[p].t = "content"

SchemaViolation == Failure("SchemaViolation")

OutOfSet(j, allowed) == j.t = "str" /\ j.v \notin allowed

IndicatorOutOfSet(j) ==
    j.t = "list" /\ \E i \in 1..Len(j.v) :
        \/ OutOfSet(j.v[i].v.sentiment_impact, SentimentLevels)
        \/ OutOfSet(j.v[i].v.category, Categories)

EnumOutOfSet(k, body) ==
    IF k = "email" THEN OutOfSet(body.priority, {"high", "medium", "low"})
    ELSE \/ OutOfSet(body.overall_sentiment, SentimentLevels)
         \/ IndicatorOutOfSet(body.key_sentiment_indicators)
         \/ OutOfSet(body.emotion_detected, Emotions)
         \/ OutOfSet(body.churn_risk, ChurnRisks)
         \/ OutOfSet(body.followup_priority, FollowupPriorities)
         \/ OutOfSet(body.response_template_type, TemplateTypes)

EnumsInSets(k, r) ==
    IF k = "email" THEN r.priority \in {"high", "medium", "low"}
    ELSE /\ r.overall_sentiment \in SentimentLevels
         /\ \A i \in 1..Len(r.key_sentiment_indicators) :
                /\ r.key_sentiment_indicators[i].sentiment_impact \in SentimentLevels
                /\ r.key_sentiment_indicators[i].category \in Categories
         /\ r.emotion_detected \in Emotions
         /\ r.churn_risk \in ChurnRisks
         /\ r.followup_priority \in FollowupPriorities
         /\ r.response_template_type \in TemplateTypes

\* C1: every enumerated field of a returned record is a member of its
\* declared closed set, and a collaborator response with an out-of-set value
\* in an enumerated field ends in a validation failure, never in a record.
C1_EnumeratedFieldsClosed ==
    \A p \in Invocations :
        /\ HasRecord(p) => EnumsInSets(kind[p], outcome[p].value)
        /\ (Done(p) /\ HasContent(p) /\ EnumOutOfSet(kind[p], response[p].body))
               => outcome[p] = SchemaViolation

\* An out-of-set priority was rejected and a sentiment record was returned.
C1_Witness ==
    \E p, q \in Invocations :
        /\ Done(p) /\ kind[p] = "email" /\ HasContent(p)
        /\ response[p].body.priority = Str("super_urgent")
        /\ outcome[p] = SchemaViolation
        /\ HasRecord(q) /\ kind[q] = "sentiment"
        /\ outcome[q].value.overall_sentiment = "positive"

\* -1.0 <= v <= 1.0, read off the digits of v.
InUnitInterval(v) ==
    /\ v.kind = "fin"
    /\ Len(v.digits) = 0 \/ v.exp < 0 \/ (v.exp = 0 /\ v.digits = <<1>>)

Score(p) == response[p].body.sentiment_score

OnlyScoreVaries(p) == response[p].body = [SentimentBase EXCEPT !.sentiment_score = Score(p)]

\* What Python prints for float(s), for scores at and around the bounds.
One == Finite(FALSE, <<1>>, 0)
MinusOne == Finite(TRUE, <<1>>, 0)
NextAboveOne == Finite(FALSE, <<1, 0, 0, 0, 0, 0, 0, 0, 0, 0, 0, 0, 0, 0, 0, 0, 2>>, 0)

ScoreReadings ==
    {<<Num(-10), MinusOne>>, <<Num(10), One>>, <<Bool(TRUE), One>>,
     <<Num(15), Finite(FALSE, <<1, 5>>, 0)>>, <<Num(-20), Finite(TRUE, <<2>>, 0)>>,
     <<Num(11), Finite(FALSE, <<1, 1>>, 0)>>,
     <<Str("1.5"), Finite(FALSE, <<1, 5>>, 0)>>, <<Str("-2.0"), Finite(TRUE, <<2>>, 0)>>,
     <<Str("1"), One>>, <<Str("1e0"), One>>,
     <<Str("1.0000000000000001"), One>>, <<Str("-1.0000000000000001"), MinusOne>>,
     <<Str("0.99999999999999999999"), One>>,
     <<Str("1.00000000000000011102230246251565404236316680908203125"), One>>,
     <<Str("1.00000000000000011102230246251565404236316680908203126"), NextAboveOne>>,
     <<Str("1.0000000000000002"), NextAboveOne>>,
     <<Str("1.0000000000000003"), NextAboveOne>>,
     <<Str("-1.0000000000000002"), [NextAboveOne EXCEPT !.neg = TRUE]>>,
     <<Str("0.9999999999999999"),
       Finite(FALSE, <<9, 9, 9, 9, 9, 9, 9, 9, 9, 9, 9, 9, 9, 9, 9, 9>>, -1)>>,
     <<Str("0.55"), Finite(FALSE, <<5, 5>>, -1)>>,
     <<Str("-0.30000000000000004"),
       Finite(TRUE, <<3, 0, 0, 0, 0, 0, 0, 0, 0, 0, 0, 0, 0, 0, 0, 0, 4>>, -1)>>,
     <<Str("0.1234567890123456789"),
       Finite(FALSE, <<1, 2, 3, 4, 5, 6, 7, 8, 9, 0, 1, 2, 3, 4, 5, 6, 8>>, -1)>>,
     <<Str(" 0.5"), Finite(FALSE, <<5>>, -1)>>,
     <<Str("0.5"), Finite(FALSE, <<5>>, -1)>>,
     <<Str("\t-1.0000000000000001\n"), MinusOne>>,
     <<Str("1e-400"), Zero(FALSE)>>, <<Str("-0.0"), Zero(TRUE)>>,
     <<Str("1e400"), Infinity(FALSE)>>, <<Str("-Infinity"), Infinity(TRUE)>>}

\* C2: a returned sentiment record has its score in [-1.0, 1.0]; a response
\* whose score, as the float field reads it, is outside the interval (or is
\* no number) ends in SchemaViolation; a response that differs from a
\* conformant one in its score only, the score inside the interval or at
\* either endpoint, is returned as a record that holds the score as read.
\* The scores read as Python reads them: a decimal within half a unit in
\* the last place of 1.0 is 1.0.
C2_ScoreWithinBounds ==
    \A p \in Invocations :
        (Done(p) /\ kind[p] = "sentiment") =>
            /\ outcome[p].tag = "record" => InUnitInterval(outcome[p].value.sentiment_score)
            /\ (HasContent(p) /\ ~(IsFloat(Score(p)) /\ InUnitInterval(AsFloat(Score(p)))))
                   => outcome[p] = SchemaViolation
            /\ (HasContent(p) /\ OnlyScoreVaries(p)
                /\ IsFloat(Score(p)) /\ InUnitInterval(AsFloat(Score(p))))
                   => outcome[p] = Returned([CustomerSentimentAnalysis(SentimentBase)
                                                EXCEPT !.sentiment_score = AsFloat(Score(p))])
            /\ \A r \in ScoreReadings :
                   (HasContent(p) /\ Score(p) = r[1]) => AsFloat(Score(p)) = r[2]

\* The decimal 1.0000000000000002 is the next double above 1.0 and was
\* rejected.
C2_Witness ==
    /\ Done(Holder) /\ kind[Holder] = "sentiment" /\ HasContent(Holder)
    /\ Score(Holder) = Str("1.0000000000000002")
    /\ AsFloat(Score(Holder)) = NextAboveOne
    /\ outcome[Holder] = SchemaViolation

\* C3: every finished invocation ends in a valid record or in one of the
\* typed failures; it never returns an absent value in place of a record.
C3_RecordOrTypedFailure ==
    \A p \in Invocations :
        Done(p) =>
            \/ outcome[p].tag = "record" /\ Valid(kind[p], response[p].body)
            \/ outcome[p] \in {Failure("CollaboratorUnavailable"), Failure("SchemaViolation"),
                               Failure("EmptyInput")}

\* C4 as stated: a blank input is rejected as EmptyInput and the
\* collaborator is not invoked.
C4_BlankInputRejected ==
    \A p \in Invocations :
        (pc[p] # "idle" /\ IsBlank(input[p])) =>
            /\ calls[p] = 0
            /\ request[p] = NoRequest
            /\ Done(p) => outcome[p] = Failure("EmptyInput")

\* C4 as amended: a blank input is not rejected; it is submitted to the
\* collaborator once, after the fixed prefix of the user message, the
\* outcome is what the collaborator's response yields, and the invocation
\* never ends in EmptyInput.
C4_BlankInputSubmitted ==
    \A p \in Invocations :
        (pc[p] # "idle" /\ IsBlank(input[p])) =>
            /\ calls[p] = 1
            /\ Len(request[p].messages) = 2
            /\ request[p].messages[2].content = <<UserPrefix(kind[p])>> \o input[p]
            /\ Done(p) => outcome[p] = ParseCompletion(kind[p], response[p])
            /\ outcome[p] # Failure("EmptyInput")

\* A whitespace-only text and an empty text each went to the collaborator
\* and came back as a record.
C4_Witness ==
    \E p, q \in Invocations :
        /\ HasRecord(p) /\ input[p] = <<Blank>> /\ calls[p] = 1
        /\ HasRecord(q) /\ input[q] = <<>> /\ calls[q] = 1

\* C5: an invocation calls the collaborator at most once; a failed call or
\* a non-conformant answer is surfaced and not followed by a second call.
C5_AtMostOneCall ==
    \A p \in Invocations :
        /\ calls[p] <= 1
        /\ pc[p] # "idle" => calls[p] = 1
        /\ (Done(p) /\ outcome[p].tag = "failure") =>
               outcome[p] = ParseCompletion(kind[p], response[p])

\* Both kinds of failure were surfaced after a single call.
C5_Witness ==
    \E p, q \in Invocations :
        /\ Done(p) /\ outcome[p] = Failure("CollaboratorUnavailable") /\ calls[p] = 1
        /\ Done(q) /\ outcome[q] = SchemaViolation /\ calls[q] = 1

\* C6: against a deterministic stub, two invocations of the same operation
\* with the same input text end in the same outcome, whatever ran before.
C6_SameInputSameOutcome ==
    \A p, q \in Invocations :
        (Done(p) /\ Done(q) /\ kind[p] = kind[q] /\ input[p] = input[q]) =>
            outcome[p] = outcome[q]

\* Two invocations with the same input both returned the same record.
C6_Witness ==
    \E p, q \in Invocations :
        /\ p # q /\ mode = "stub"
        /\ HasRecord(p) /\ HasRecord(q)
        /\ kind[p] = kind[q] /\ input[p] = input[q] /\ input[p] # <<>>
        /\ outcome[p] = outcome[q]

\* C7: under every interleaving an invocation submits its own input text
\* and returns the outcome of its own collaborator response.
C7_OwnInputOwnOutcome ==
    \A p \in Invocations :
        /\ pc[p] # "idle" =>
               /\ request[p].messages[Len(request[p].messages)].role = "user"
               /\ request[p].messages[Len(request[p].messages)].content
                      = <<UserPrefix(kind[p])>> \o input[p]
        /\ Done(p) => outcome[p] = ParseCompletion(kind[p], response[p])

\* Two invocations of the same operation, with different inputs and
\* different answers, each got its own outcome.
C7_Witness ==
    \E p, q \in Invocations :
        /\ p # q /\ kind[p] = kind[q]
        /\ Done(p) /\ Done(q)
        /\ input[p] # input[q]
        /\ outcome[p].tag = "record" /\ outcome[q].tag = "failure"

RecordInvariant(k, r) ==
    /\ EnumsInSets(k, r)
    /\ k = "sentiment" => InUnitInterval(r.sentiment_score)

\* C8 as stated: no operation on a returned record changes a field, so the
\* invariants established at construction hold in every later state.
C8_RecordImmutable ==
    [][\A p \in Invocations :
          HasRecord(p) =>
              /\ outcome'[p] = outcome[p]
              /\ RecordInvariant(kind[p], outcome'[p].value)]_vars

\* C8 as amended: the extract operation and the entry point's prints leave
\* a returned record as it is, and a record nobody assigned to satisfies
\* the invariants; only an attribute assignment by the holder changes it.
C8_OnlyAssignmentChangesRecord ==
    [][\A p \in Invocations :
          /\ (HasRecord(p) /\ assigns'[p] = assigns[p]) => outcome'[p] = outcome[p]
          /\ (HasRecord(p)' /\ assigns'[p] = 0) =>
                 RecordInvariant(kind'[p], outcome'[p].value)]_vars

\* A record was printed, unchanged, and then assigned an out-of-set value.
C8_Witness ==
    /\ pc[Holder] = "shown" /\ HasRecord(Holder)
    /\ shown[Holder] # <<>>
    /\ assigns[Holder] = 1
    /\ ~RecordInvariant(kind[Holder], outcome[Holder].value)

\* C9 as stated: a returned sentiment record with requires_followup and an
\* urgent followup_priority has recommended actions.
C9_UrgentFollowupHasActions ==
    \A p \in Invocations :
        (HasRecord(p) /\ kind[p] = "sentiment") =>
            ((outcome[p].value.requires_followup
              /\ outcome[p].value.followup_priority = "urgent")
                 => outcome[p].value.recommended_actions # <<>>)

\* C9 as amended: the three follow-up fields are validated one by one and
\* returned as the collaborator gave them, in every combination, the one
\* with requires_followup, urgent and no recommended action included.
C9_FollowupFieldsAsGiven ==
    \A p \in Invocations :
        (Done(p) /\ kind[p] = "sentiment" /\ HasContent(p)
         /\ response[p].body \in FollowupBodies) =>
            /\ outcome[p].tag = "record"
            /\ outcome[p].value.requires_followup = response[p].body.requires_followup.v
            /\ outcome[p].value.followup_priority = response[p].body.followup_priority.v
            /\ Len(outcome[p].value.recommended_actions)
                   = Len(response[p].body.recommended_actions.v)
            /\ \A i \in 1..Len(response[p].body.recommended_actions.v) :
                   outcome[p].value.recommended_actions[i]
                       = response[p].body.recommended_actions.v[i].v

\* A record with requires_followup, urgent and no recommended action was returned.
C9_Witness ==
    \E p \in Invocations :
        /\ HasRecord(p) /\ kind[p] = "sentiment"
        /\ outcome[p].value.requires_followup
        /\ outcome[p].value.followup_priority = "urgent"
        /\ outcome[p].value.recommended_actions = <<>>

\* C10: a task response that omits deadline (and nothing else) yields a
\* record whose deadline is None; a response that omits sender, date,
\* action_items, priority or context yields SchemaViolation.
C10_OnlyDeadlineOptional ==
    \A p \in Invocations :
        (Done(p) /\ kind[p] = "email" /\ HasContent(p)) =>
            LET body == response[p].body
            IN  /\ (\E f \in {"sender", "date", "action_items", "priority", "context"} :
                        body[f] = Missing) => outcome[p] = SchemaViolation
                /\ body = [EmailBase EXCEPT !.deadline = Missing] =>
                       /\ outcome[p].tag = "record"
                       /\ outcome[p].value.deadline = None
                       /\ outcome[p].value.sender = "sarah"

\* A response without deadline was returned with deadline None, and one
\* without sender was rejected.
C10_Witness ==
    \E p, q \in Invocations :
        /\ HasRecord(p) /\ kind[p] = "email"
        /\ response[p].body.deadline = Missing /\ outcome[p].value.deadline = None
        /\ Done(q) /\ kind[q] = "email" /\ HasContent(q)
        /\ response[q].body.sender = Missing /\ response[q].body.deadline # Missing
        /\ outcome[q] = SchemaViolation

\* C11: every submitted request holds exactly two messages, system then
\* user; the input text is in the user message only, unmodified, after the
\* fixed prefix; and the model identifier, the system guidance, the target
\* schema, the temperature 0.3 and the output bound (500 for task
\* extraction, none for sentiment analysis) do not depend on the input text.
C11_RequestShape ==
    \A p \in Invocations :
        pc[p] # "idle" =>
            LET req == request[p]
            IN  /\ Len(req.messages) = 2
                /\ req.messages[1].role = "system"
                /\ req.messages[2].role = "user"
                /\ req.messages[1].content =
                       <<IF kind[p] = "email" THEN EmailSystemPrompt
                         ELSE SentimentSystemPrompt>>
                /\ Len(req.messages[2].content) = 1 + Len(input[p])
                /\ Head(req.messages[2].content) =
                       (IF kind[p] = "email" THEN EmailUserPrefix ELSE SentimentUserPrefix)
                /\ Tail(req.messages[2].content) = input[p]
                /\ req.temperature = 3
                /\ req.max_completion_tokens =
                       (IF kind[p] = "email" THEN <<500>> ELSE <<>>)
                /\ req.response_format =
                       (IF kind[p] = "email" THEN "EmailTask" ELSE "CustomerSentimentAnalysis")
                /\ \A q \in Invocations :
                       (pc[q] # "idle" /\ kind[q] = kind[p]) =>
                           /\ request[q].model = req.model
                           /\ request[q].messages[1] = req.messages[1]
                           /\ request[q].response_format = req.response_format
                           /\ request[q].temperature = req.temperature
                           /\ request[q].max_completion_tokens = req.max_completion_tokens

\* A task request with a plain text and one with a whitespace-only text
\* were submitted, and so was a sentiment request.
C11_Witness ==
    \E p, q \in Invocations :
        /\ pc[p] # "idle" /\ kind[p] = "email" /\ input[p] = <<Blank>>
        /\ request[p].messages[2].content = <<EmailUserPrefix, Blank>>
        /\ request[p].max_completion_tokens = <<500>>
        /\ pc[q] # "idle" /\ kind[q] = "sentiment" /\ input[q] = <<"h", "i">>
        /\ request[q].messages[2].content = <<SentimentUserPrefix, "h", "i">>
        /\ request[q].max_completion_tokens = <<>>

BadIndicator(j) ==
    \/ j.v.phrase = Missing
    \/ j.v.sentiment_impact.v \notin SentimentLevels
    \/ j.v.category.v \notin Categories

\* C12: if any element of key_sentiment_indicators in the response has an
\* out-of-set sentiment_impact or category, or lacks phrase, the extraction
\* fails as a whole and no record with the remaining indicators is returned;
\* a returned record holds the indicators in the order the collaborator
\* gave them.
C12_IndicatorsAllOrNothing ==
    \A p \in Invocations :
        (Done(p) /\ kind[p] = "sentiment" /\ HasContent(p)
         /\ response[p].body.key_sentiment_indicators.t = "list") =>
            LET given == response[p].body.key_sentiment_indicators.v
            IN  /\ (\E i \in 1..Len(given) : BadIndicator(given[i]))
                       => outcome[p] = SchemaViolation
                /\ outcome[p].tag = "record" =>
                       LET kept == outcome[p].value.key_sentiment_indicators
                       IN  /\ Len(kept) = Len(given)
                           /\ \A i \in 1..Len(given) :
                                  /\ kept[i].phrase = given[i].v.phrase.v
                                  /\ kept[i].sentiment_impact = given[i].v.sentiment_impact.v
                                  /\ kept[i].category = given[i].v.category.v

\* A list with a valid first and an invalid second indicator was rejected,
\* and a list of two different valid indicators was returned in its order.
C12_Witness ==
    \E p, q \in Invocations :
        /\ Done(p) /\ kind[p] = "sentiment" /\ HasContent(p)
        /\ response[p].body.key_sentiment_indicators
               = List(<<GoodIndicator1, BadImpactIndicator>>)
        /\ outcome[p] = SchemaViolation
        /\ HasRecord(q) /\ kind[q] = "sentiment"
        /\ response[q].body.key_sentiment_indicators
               = List(<<GoodIndicator2, GoodIndicator1>>)
        /\ Len(outcome[q].value.key_sentiment_indicators) = 2
        /\ outcome[q].value.key_sentiment_indicators[1].phrase = "quality is still good"
        /\ outcome[q].value.key_sentiment_indicators[2].phrase = "absolutely terrible"

====
